---- MODULE Spec2Model ----
(***************************************************************************)
(* Model of import_discussions.py: the text sanitizer (email redaction and *)
(* signature removal), the title derivation, the record selector and the   *)
(* orchestration in main().                                                *)
(*                                                                         *)
(* A Python str is a sequence of one-character strings.  Positions inside  *)
(* the regular-expression matcher are 0-based offsets (the number of       *)
(* characters already consumed), as in Python's re module.                 *)
(***************************************************************************)
EXTENDS Integers, Sequences, FiniteSets, TLC

VARIABLES pc, content, max_length, redacted, cleaned, inline1, inline2,
          sanitized, title, rows, questions, token, csv_exists, fieldnames,
          csv_rows, repo_id, category_id, idx, created_count, failed_count,
          calls, exit_code

vars == <<pc, content, max_length, redacted, cleaned, inline1, inline2,
          sanitized, title, rows, questions, token, csv_exists, fieldnames,
          csv_rows, repo_id, category_id, idx, created_count, failed_count,
          calls, exit_code>>

----------------------------------------------------------------------------
(* Characters *)

UpperCase == <<"A","B","C","D","E","F","G","H","I","J","K","L","M",
               "N","O","P","Q","R","S","T","U","V","W","X","Y","Z">>

LowerCase == <<"a","b","c","d","e","f","g","h","i","j","k","l","m",
               "n","o","p","q","r","s","t","u","v","w","x","y","z">>

Letters == {UpperCase[i] : i \in 1..26} \cup {LowerCase[i] : i \in 1..26}

Digits == {"0","1","2","3","4","5","6","7","8","9"}

\* what \s matches and what str.strip() removes
Whitespace == {" ", "\t", "\n", "\r", "\f"}

\* what \w matches; \b is an edge between a \w and a non-\w character
WordChars == Letters \cup Digits \cup {"_"}

Lower(c) == IF \E i \in 1..26 : UpperCase[i] = c
            THEN LowerCase[CHOOSE i \in 1..26 : UpperCase[i] = c]
            ELSE c

Upper(c) == IF \E i \in 1..26 : LowerCase[i] = c
            THEN UpperCase[CHOOSE i \in 1..26 : LowerCase[i] = c]
            ELSE c

\* str.upper()
StrUpper(s) == [i \in 1..Len(s) |-> Upper(s[i])]

RECURSIVE LStrip(_)
LStrip(s) == IF s /= <<>> /\ Head(s) \in Whitespace THEN LStrip(Tail(s)) ELSE s

RECURSIVE RStrip(_)
RStrip(s) == IF s /= <<>> /\ s[Len(s)] \in Whitespace
             THEN RStrip(SubSeq(s, 1, Len(s) - 1))
             ELSE s

\* str.strip()
Strip(s) == RStrip(LStrip(s))

RECURSIVE SplitAcc(_, _)
SplitAcc(s, cur) ==
    IF s = <<>> THEN <<cur>>
    ELSE IF Head(s) = "\n" THEN <<cur>> \o SplitAcc(Tail(s), <<>>)
    ELSE SplitAcc(Tail(s), Append(cur, Head(s)))

\* text.split('\n')
SplitLines(s) == SplitAcc(s, <<>>)

RECURSIVE JoinLines(_)
\* '\n'.join(lines)
JoinLines(ls) ==
    IF ls = <<>> THEN <<>>
    ELSE IF Len(ls) = 1 THEN ls[1]
    ELSE ls[1] \o <<"\n">> \o JoinLines(Tail(ls))

----------------------------------------------------------------------------
(* A backtracking matcher for the subset of Python's re syntax the program *)
(* uses.  A pattern is a sequence of elements:                             *)
(*   [t |-> "rep", neg, set, min, max]  a greedy repetition of a character *)
(*        class, min..max times (max = -1: unbounded); neg = TRUE negates  *)
(*        the class.  X? is min 0 max 1, X* min 0, X+ min 1, X{2,} min 2,  *)
(*        a single class min 1 max 1;                                      *)
(*   [t |-> "alt", lits]  an alternation of literals, tried in order;      *)
(*   [t |-> "wb"]   \b;                                                    *)
(*   [t |-> "end"]  $ (end of string, or just before a final newline).     *)
(* Literals are lower case and compared after lowering the text when the   *)
(* flag ic (re.IGNORECASE) is set.  Match returns the end offset of the    *)
(* first match in backtracking order that starts at pos, or -1.            *)
(***************************************************************************)

Rep(neg, set, min, max) == [t |-> "rep", neg |-> neg, set |-> set, min |-> min, max |-> max]

Alt(lits) == [t |-> "alt", lits |-> lits]

Lit(w) == Alt(<<w>>)

WordBoundary == [t |-> "wb"]

EndOfString == [t |-> "end"]

InClass(c, el) == (c \in el.set) /= el.neg

IsWordAt(s, i) == i >= 1 /\ i <= Len(s) /\ s[i] \in WordChars

\* \b at offset pos: between s[pos] and s[pos+1]
AtWordBoundary(s, pos) == IsWordAt(s, pos) /= IsWordAt(s, pos + 1)

\* $ without re.MULTILINE
AtEnd(s, pos) == pos = Len(s) \/ (pos = Len(s) - 1 /\ s[Len(s)] = "\n")

LitAt(s, pos, w, ic) ==
    /\ pos + Len(w) <= Len(s)
    /\ \A k \in 1..Len(w) : (IF ic THEN Lower(s[pos + k]) ELSE s[pos + k]) = w[k]

RECURSIVE RunLength(_, _, _, _)
\* how many characters from offset pos on a greedy repetition can take
RunLength(s, pos, el, n) ==
    IF pos + n < Len(s) /\ InClass(s[pos + n + 1], el) /\ (el.max = -1 \/ n < el.max)
    THEN RunLength(s, pos, el, n + 1)
    ELSE n

RECURSIVE Match(_, _, _, _, _)
RECURSIVE TryRep(_, _, _, _, _, _)
RECURSIVE TryAlt(_, _, _, _, _, _)

Match(s, pat, ic, k, pos) ==
    IF k > Len(pat) THEN pos
    ELSE LET el == pat[k] IN
         CASE el.t = "rep" -> TryRep(s, pat, ic, k, pos, RunLength(s, pos, el, 0))
           [] el.t = "alt" -> TryAlt(s, pat, ic, k, pos, 1)
           [] el.t = "wb"  -> IF AtWordBoundary(s, pos)
                              THEN Match(s, pat, ic, k + 1, pos) ELSE -1
           [] el.t = "end" -> IF AtEnd(s, pos)
                              THEN Match(s, pat, ic, k + 1, pos) ELSE -1

\* greedy: the longest run first, then one character less, down to min
TryRep(s, pat, ic, k, pos, n) ==
    IF n < pat[k].min THEN -1
    ELSE LET r == Match(s, pat, ic, k + 1, pos + n) IN
         IF r >= 0 THEN r ELSE TryRep(s, pat, ic, k, pos, n - 1)

\* the alternatives in the order they are written
TryAlt(s, pat, ic, k, pos, j) ==
    IF j > Len(pat[k].lits) THEN -1
    ELSE LET w == pat[k].lits[j]
             r == IF LitAt(s, pos, w, ic)
                  THEN Match(s, pat, ic, k + 1, pos + Len(w)) ELSE -1
         IN IF r >= 0 THEN r ELSE TryAlt(s, pat, ic, k, pos, j + 1)

\* re.match(pattern, s) is not None
ReMatch(pat, s, ic) == Match(s, pat, ic, 1, 0) >= 0

RECURSIVE SubFrom(_, _, _, _, _)
\* re.sub from offset pos on: the leftmost match is replaced, the scan goes
\* on after it; a character no match starts at is copied.  (None of the
\* program's patterns matches the empty string.)
SubFrom(pat, repl, s, ic, pos) ==
    IF pos >= Len(s) THEN <<>>
    ELSE LET e == Match(s, pat, ic, 1, pos) IN
         IF e > pos THEN repl \o SubFrom(pat, repl, s, ic, e)
         ELSE <<s[pos + 1]>> \o SubFrom(pat, repl, s, ic, pos + 1)

\* re.sub(pattern, repl, s)
ReSub(pat, repl, s, ic) == SubFrom(pat, repl, s, ic, 0)

----------------------------------------------------------------------------
(* Configuration *)

TITLE_PREFIX == <<"Q", "&", "A", ":", " ">>

TITLE_MAX_LENGTH == 60

\* TITLE_WORD_BOUNDARY_THRESHOLD = 0.7 as the fraction ThresholdNum / ThresholdDen
ThresholdNum == 7

ThresholdDen == 10

RedactionMarker ==
    <<"[", "r", "e", "d", "a", "c", "t", "e", "d", "-", "e", "m", "a", "i", "l", "]">>

----------------------------------------------------------------------------
(* redact_emails *)

LocalChars == Letters \cup Digits \cup {".", "_", "%", "+", "-"}

DomainChars == Letters \cup Digits \cup {".", "-"}

\* the class [A-Z|a-z]: the bar inside the brackets is a member of the class
TldChars == Letters \cup {"|"}

\* r'\b[A-Za-z0-9._%+-]+@[A-Za-z0-9.-]+\.[A-Z|a-z]{2,}\b'
email_pattern ==
    << WordBoundary,
       Rep(FALSE, LocalChars, 1, -1),
       Lit(<<"@">>),
       Rep(FALSE, DomainChars, 1, -1),
       Lit(<<".">>),
       Rep(FALSE, TldChars, 2, -1),
       WordBoundary >>

redact_emails(text) == ReSub(email_pattern, RedactionMarker, text, FALSE)

----------------------------------------------------------------------------
(* remove_signature_lines *)

KwThanks == <<"t", "h", "a", "n", "k", "s">>

KwThankYou == <<"t", "h", "a", "n", "k", " ", "y", "o", "u">>

KwRegards == <<"r", "e", "g", "a", "r", "d", "s">>

KwBestRegards == <<"b", "e", "s", "t", " ", "r", "e", "g", "a", "r", "d", "s">>

KwBest == <<"b", "e", "s", "t">>

KwCheers == <<"c", "h", "e", "e", "r", "s">>

KwSincerely == <<"s", "i", "n", "c", "e", "r", "e", "l", "y">>

\* ^\s*<keyword>[\s,]
KeywordLine(w) ==
    << Rep(FALSE, Whitespace, 0, -1), Lit(w), Rep(FALSE, Whitespace \cup {","}, 1, 1) >>

\* ^\s*<header>\s*:
HeaderLine(w) ==
    << Rep(FALSE, Whitespace, 0, -1), Lit(w), Rep(FALSE, Whitespace, 0, -1), Lit(<<":">>) >>

signature_patterns ==
    << KeywordLine(KwThanks),
       KeywordLine(KwThankYou),
       KeywordLine(KwRegards),
       KeywordLine(KwBest),
       KeywordLine(KwCheers),
       KeywordLine(KwSincerely),
       HeaderLine(<<"f", "r", "o", "m">>),
       HeaderLine(<<"s", "e", "n", "t">>),
       HeaderLine(<<"t", "o">>),
       HeaderLine(<<"c", "c">>),
       HeaderLine(<<"b", "c", "c">>),
       HeaderLine(<<"s", "u", "b", "j", "e", "c", "t">>) >>

\* the inner loop over signature_patterns
is_signature(line) ==
    \E j \in 1..Len(signature_patterns) : ReMatch(signature_patterns[j], line, TRUE)

RECURSIVE KeepLines(_, _)
\* the loop over lines, found_signature being the flag it carries
KeepLines(lines, found_signature) ==
    IF lines = <<>> THEN <<>>
    ELSE IF found_signature THEN KeepLines(Tail(lines), TRUE)
    ELSE IF is_signature(Head(lines)) THEN KeepLines(Tail(lines), TRUE)
    ELSE <<Head(lines)>> \o KeepLines(Tail(lines), FALSE)

\* result = '\n'.join(cleaned_lines).strip()
LineStage(text) == Strip(JoinLines(KeepLines(SplitLines(text), FALSE)))

\* (thanks|thank you|regards|best regards|best|cheers|sincerely)
InlineKeywords ==
    <<KwThanks, KwThankYou, KwRegards, KwBestRegards, KwBest, KwCheers, KwSincerely>>

\* r'[.!?]?\s+(...)[\s,]+.*$'
inline_signature_pattern ==
    << Rep(FALSE, {".", "!", "?"}, 0, 1),
       Rep(FALSE, Whitespace, 1, -1),
       Alt(InlineKeywords),
       Rep(FALSE, Whitespace \cup {","}, 1, -1),
       Rep(TRUE, {"\n"}, 0, -1),
       EndOfString >>

\* r',\s+(...)[\s,]+.*$'
inline_signature_pattern2 ==
    << Lit(<<",">>),
       Rep(FALSE, Whitespace, 1, -1),
       Alt(InlineKeywords),
       Rep(FALSE, Whitespace \cup {","}, 1, -1),
       Rep(TRUE, {"\n"}, 0, -1),
       EndOfString >>

\* Variant of InlineStage1 with a fault: the trim starts at the last offset a
\* match begins at instead of the first.
InlineStage1Last(result) ==
    LET starts == {p \in 0..(Len(result) - 1) :
                      Match(result, inline_signature_pattern, TRUE, 1, p) >= 0}
    IN  IF starts = {} THEN result
        ELSE SubSeq(result, 1, CHOOSE p \in starts : \A q \in starts : q <= p)

InlineStage1(result) == ReSub(inline_signature_pattern, <<>>, result, TRUE)

InlineStage2(result) == ReSub(inline_signature_pattern2, <<>>, result, TRUE)

\* rstrip, append '.' unless the text is empty or ends in . ! ?, strip
EndSentence(result) ==
    LET r == RStrip(result) IN
    Strip(IF r /= <<>> /\ r[Len(r)] \notin {".", "!", "?"} THEN Append(r, ".") ELSE r)

remove_signature_lines(text) ==
    EndSentence(InlineStage2(InlineStage1(LineStage(text))))

sanitize_content(text) == Strip(remove_signature_lines(redact_emails(text)))

----------------------------------------------------------------------------
(* generate_title *)

Min(a, b) == IF a <= b THEN a ELSE b

\* str.rfind(' '): the 0-based index of the last space, -1 when there is none
RFindSpace(s) ==
    IF \E i \in 1..Len(s) : s[i] = " "
    THEN (CHOOSE i \in 1..Len(s) : s[i] = " " /\ \A j \in (i + 1)..Len(s) : s[j] /= " ") - 1
    ELSE -1

\* Variant of AboveThreshold with a fault: >= in place of >.
AboveThresholdInclusive(last_space, maxlen) ==
    last_space * ThresholdDen >= maxlen * ThresholdNum

\* last_space > max_length * TITLE_WORD_BOUNDARY_THRESHOLD.  The product is a
\* float in the code; for max_length below 90 the comparison agrees with the
\* one of the exact fractions (90 * 0.7 is 62.99999999999999 as a float).
AboveThreshold(last_space, maxlen) == last_space * ThresholdDen > maxlen * ThresholdNum

\* Variant of generate_title with a fault: len(content) >= max_length.
generate_title_ge(text, maxlen) ==
    LET title_content == SubSeq(text, 1, Min(maxlen, Len(text)))
        last_space == RFindSpace(title_content)
    IN  IF Len(text) >= maxlen
        THEN TITLE_PREFIX
             \o (IF AboveThreshold(last_space, maxlen)
                 THEN SubSeq(title_content, 1, last_space)
                 ELSE title_content)
             \o <<".", ".", ".">>
        ELSE TITLE_PREFIX \o title_content

generate_title(text, maxlen) ==
    LET title_content == SubSeq(text, 1, Min(maxlen, Len(text)))
        last_space == RFindSpace(title_content)
    IN  IF Len(text) > maxlen
        THEN TITLE_PREFIX
             \o (IF AboveThreshold(last_space, maxlen)
                 THEN SubSeq(title_content, 1, last_space)
                 ELSE title_content)
             \o <<".", ".", ".">>
        ELSE TITLE_PREFIX \o title_content

----------------------------------------------------------------------------
(* Inputs.  A text is a concatenation of at most a bounded number of       *)
(* pieces; the matcher works on its characters.                            *)

MaxEmailPieces == 5

MaxPieces == 5

MaxContentLen == 64

SmallMaxLength == 10

RECURSIVE TextsOf(_, _)
\* every concatenation of at most n pieces
TextsOf(pieces, n) ==
    IF n = 0 THEN {<<>>}
    ELSE LET shorter == TextsOf(pieces, n - 1)
         IN  shorter \cup {t \o p : t \in shorter, p \in pieces}

EmailPieces ==
    { <<"a", "@", "b">>, <<".">>, <<"c", "o">>, <<"|">>, <<"x">>, <<" ">> }

EmailTexts == TextsOf(EmailPieces, MaxEmailPieces)

SignaturePieces ==
    { <<"o", "k">>, <<" ">>, <<"?", " ">>, <<"\n">>,
      <<"b", "e", "s", "t">>, <<"T", "h", "a", "n", "k", "s", ",", " ">> }

\* "How do I enable the feature? Thanks, John Smith"
ExampleContent ==
    << "H", "o", "w", " ", "d", "o", " ", "I", " ", "e", "n", "a", "b",
       "l", "e", " ", "t", "h", "e", " ", "f", "e", "a", "t", "u", "r",
       "e", "?", " ", "T", "h", "a", "n", "k", "s", ",", " ", "J", "o",
       "h", "n", " ", "S", "m", "i", "t", "h" >>

SignatureTexts == TextsOf(SignaturePieces, MaxPieces) \cup {ExampleContent}

\* a text of len characters, all "a" but for spaces at indices p1 and p2
\* (index 0: no space)
SpacedText(len, p1, p2) == [k \in 1..len |-> IF k = p1 \/ k = p2 THEN " " ELSE "a"]

TitleContents ==
    { SpacedText(len, p1, p2) : len \in 0..MaxContentLen,
                                p1 \in 0..MaxContentLen, p2 \in 0..MaxContentLen }

MaxLengths == {SmallMaxLength, TITLE_MAX_LENGTH}

None == "None"

TextIdle ==
    /\ redacted = <<>> /\ cleaned = <<>> /\ inline1 = <<>> /\ inline2 = <<>>
    /\ sanitized = <<>> /\ title = <<>>

SelectorIdle == rows = <<>> /\ questions = <<>>

MainIdle ==
    /\ token = FALSE /\ csv_exists = FALSE /\ fieldnames = {} /\ csv_rows = <<>>
    /\ repo_id = None /\ category_id = None /\ idx = 0
    /\ created_count = 0 /\ failed_count = 0 /\ calls = <<>> /\ exit_code = -1

selectorVars == <<rows, questions>>

mainVars == <<token, csv_exists, fieldnames, csv_rows, repo_id, category_id, idx,
              created_count, failed_count, calls, exit_code>>

----------------------------------------------------------------------------
(* The sanitizer and the title derivation as steps *)

\* redact_emails(text) on its own
RedactEmails ==
    /\ pc = "redact"
    /\ redacted' = redact_emails(content)
    /\ pc' = "done"
    /\ UNCHANGED <<content, max_length, cleaned, inline1, inline2, sanitized, title,
                   selectorVars, mainVars>>

\* sanitize_content(content); cleaned, inline1 and inline2 are the values
\* the local variable result of remove_signature_lines takes on its way
SanitizeContent ==
    /\ pc = "sanitize"
    /\ redacted' = redact_emails(content)
    /\ cleaned' = LineStage(redacted')
    /\ inline1' = InlineStage1(cleaned')
    /\ inline2' = InlineStage2(inline1')
    /\ sanitized' = Strip(EndSentence(inline2'))
    /\ pc' = "title"
    /\ UNCHANGED <<content, max_length, title, selectorVars, mainVars>>

\* generate_title(sanitized_content, max_length)
GenerateTitle ==
    /\ pc = "title"
    /\ title' = generate_title(sanitized, max_length)
    /\ pc' = "done"
    /\ UNCHANGED <<content, max_length, redacted, cleaned, inline1, inline2, sanitized,
                   selectorVars, mainVars>>

InitRedact ==
    /\ pc = "redact"
    /\ content \in EmailTexts
    /\ max_length = TITLE_MAX_LENGTH
    /\ TextIdle /\ SelectorIdle /\ MainIdle

NextRedact == RedactEmails

SpecRedact == InitRedact /\ [][NextRedact]_vars

InitSanitize ==
    /\ pc = "sanitize"
    /\ content \in SignatureTexts
    /\ max_length = TITLE_MAX_LENGTH
    /\ TextIdle /\ SelectorIdle /\ MainIdle

NextSanitize == SanitizeContent \/ GenerateTitle

SpecSanitize == InitSanitize /\ [][NextSanitize]_vars

InitTitle ==
    /\ pc = "title"
    /\ content = <<>>
    /\ sanitized \in TitleContents
    /\ max_length \in MaxLengths
    /\ redacted = <<>> /\ cleaned = <<>> /\ inline1 = <<>> /\ inline2 = <<>>
    /\ title = <<>>
    /\ SelectorIdle /\ MainIdle

NextTitle == GenerateTitle

SpecTitle == InitTitle /\ [][NextTitle]_vars

----------------------------------------------------------------------------
(* read_csv_file and filter_questions.  A row is a dict: a function from   *)
(* the column names it has to strings.                                     *)

ATTENDEE == <<"A", "T", "T", "E", "N", "D", "E", "E">>

QUESTION == <<"Q", "U", "E", "S", "T", "I", "O", "N">>

\* required_columns
RequiredColumns == {"Source", "Type", "Content", "Reactions"}

\* None as the value of a field: what csv.DictReader stores (restval) for
\* the fields a row shorter than the header lacks
PyNone == <<"None">>

\* dict.get(key, default)
Get(row, key, default) == IF key \in DOMAIN row THEN row[key] ELSE default

\* Variant of read_csv_file with a fault: one required column is enough.
read_csv_file_any(exists, names, data) ==
    IF ~exists THEN [ok |-> FALSE, error |-> "FileNotFoundError", rows |-> <<>>]
    ELSE IF RequiredColumns \cap names = {}
         THEN [ok |-> FALSE, error |-> "ValueError", rows |-> <<>>]
         ELSE [ok |-> TRUE, error |-> None, rows |-> data]

\* exists: os.path.exists(filepath); names: reader.fieldnames or []; data:
\* the rows the reader yields.  ok = FALSE stands for the exception raised.
read_csv_file(exists, names, data) ==
    IF ~exists THEN [ok |-> FALSE, error |-> "FileNotFoundError", rows |-> <<>>]
    ELSE IF ~(RequiredColumns \subseteq names)
         THEN [ok |-> FALSE, error |-> "ValueError", rows |-> <<>>]
         ELSE [ok |-> TRUE, error |-> None, rows |-> data]

\* the outcome of a call: the value returned, or raised = TRUE when the call
\* ends in an exception
Returned(v) == [raised |-> FALSE, value |-> v]

Raised == [raised |-> TRUE, value |-> <<>>]

RECURSIVE FilterLoop(_)
\* the loop of filter_questions: the rows that pass, appended in turn.
\* row.get(...) is None for a field a short row lacks, and None.upper()
\* raises AttributeError; Type is looked at only when Source matched.
FilterLoop(rs) ==
    IF rs = <<>> THEN Returned(<<>>)
    ELSE LET row == Head(rs)
             source == Get(row, "Source", <<>>)
             type == Get(row, "Type", <<>>)
             rest == FilterLoop(Tail(rs))
         IN  IF source = PyNone THEN Raised
             ELSE IF StrUpper(source) /= ATTENDEE THEN rest
             ELSE IF type = PyNone THEN Raised
             ELSE IF StrUpper(type) /= QUESTION THEN rest
             ELSE IF rest.raised THEN Raised
             ELSE Returned(<<row>> \o rest.value)

filter_questions(rs) == FilterLoop(rs)

----------------------------------------------------------------------------
(* The remote calls.  A response is what requests.post returns: the status *)
(* code and the fields of the JSON body the code reads.                    *)

DISCUSSION_CATEGORY == "Session Questions"

RepoResponses ==
    { [status |-> 200, id |-> "R_1"],
      [status |-> 200, id |-> None],
      [status |-> 404, id |-> None] }

CategoryResponses ==
    { [status |-> 200, nodes |-> << [name |-> "General", id |-> "C_0"],
                                    [name |-> "Session Questions", id |-> "C_1"] >>],
      [status |-> 200, nodes |-> << [name |-> "General", id |-> "C_0"] >>],
      [status |-> 200, nodes |-> << >>],
      [status |-> 500, nodes |-> << >>] }

PublishResponses ==
    { [status |-> 200, errors |-> FALSE, url |-> "https://discussion"],
      [status |-> 200, errors |-> TRUE, url |-> None],
      [status |-> 200, errors |-> FALSE, url |-> None],
      [status |-> 403, errors |-> FALSE, url |-> None] }

get_repository_id(resp) == IF resp.status /= 200 THEN None ELSE resp.id

get_discussion_category_id(resp, category_name) ==
    IF resp.status /= 200 THEN None
    ELSE IF \E k \in 1..Len(resp.nodes) : resp.nodes[k].name = category_name
         THEN resp.nodes[CHOOSE k \in 1..Len(resp.nodes) :
                            /\ resp.nodes[k].name = category_name
                            /\ \A j \in 1..(k - 1) : resp.nodes[j].name /= category_name].id
         ELSE None

create_discussion(resp) ==
    IF resp.status /= 200 THEN FALSE
    ELSE IF resp.errors THEN FALSE
    ELSE resp.url /= None

----------------------------------------------------------------------------
(* The selector as a step *)

MaxRows == 3

RECURSIVE SeqsUpTo(_, _)
\* every sequence of at most n elements of S
SeqsUpTo(S, n) ==
    IF n = 0 THEN {<<>>}
    ELSE LET shorter == SeqsUpTo(S, n - 1)
         IN  shorter \cup {Append(q, x) : q \in shorter, x \in S}

SourceValues ==
    { ATTENDEE, <<"a", "t", "t", "e", "n", "d", "e", "e">>, <<"H", "O", "S", "T">>, PyNone }

TypeValues == { <<"Q", "u", "e", "s", "t", "i", "o", "n">>, <<"A", "N", "S", "W", "E", "R">>, PyNone }

ContentValues == { <<"a">>, <<"b">> }

\* rows as the reader yields them (every column of the header, None where
\* the row is short) and dicts without the Source or the Type key
SelectorRows ==
    { [Source |-> src, Type |-> typ, Content |-> c] :
         src \in SourceValues, typ \in TypeValues, c \in ContentValues }
    \cup { [Type |-> typ, Content |-> c] : typ \in TypeValues, c \in ContentValues }
    \cup { [Source |-> src, Content |-> c] : src \in SourceValues, c \in ContentValues }
    \cup { [Content |-> c] : c \in ContentValues }

FilterQuestions ==
    /\ pc = "filter"
    /\ LET r == filter_questions(rows) IN
       IF r.raised
       THEN pc' = "raised" /\ UNCHANGED questions
       ELSE pc' = "done" /\ questions' = r.value
    /\ UNCHANGED <<content, max_length, redacted, cleaned, inline1, inline2, sanitized,
                   title, rows, mainVars>>

InitFilter ==
    /\ pc = "filter"
    /\ rows \in SeqsUpTo(SelectorRows, MaxRows)
    /\ questions = <<>>
    /\ content = <<>>
    /\ max_length = TITLE_MAX_LENGTH
    /\ TextIdle /\ MainIdle

NextFilter == FilterQuestions

SpecFilter == InitFilter /\ [][NextFilter]_vars

----------------------------------------------------------------------------
(* main() *)

MaxCsvRows == 3

\* the headers a source file may have
Headers ==
    { RequiredColumns,
      RequiredColumns \cup {"Time"},
      RequiredColumns \ {"Reactions"},
      {} }

\* the rows of the file under the header Time, Source, Type, Content,
\* Reactions; the last two are short rows
CsvRecords ==
    { [Time |-> <<"1">>, Source |-> <<"A", "t", "t", "e", "n", "d", "e", "e">>, Type |-> QUESTION,
       Content |-> <<"o", "k", "?", " ", "T", "h", "a", "n", "k", "s", ",", " ", "J", "o">>, Reactions |-> <<"1">>],
      [Time |-> <<"2">>, Source |-> ATTENDEE, Type |-> <<"q", "u", "e", "s", "t", "i", "o", "n">>,
       Content |-> <<"a", "@", "b", ".", "c", "o", " ", "o", "k">>, Reactions |-> <<>>],
      [Time |-> <<"3">>, Source |-> <<"H", "O", "S", "T">>, Type |-> <<"A", "N", "S", "W", "E", "R">>,
       Content |-> <<"o", "k", ".">>, Reactions |-> <<>>],
      [Time |-> <<"4">>, Source |-> ATTENDEE, Type |-> QUESTION,
       Content |-> PyNone, Reactions |-> PyNone],
      [Time |-> <<"5">>, Source |-> ATTENDEE, Type |-> PyNone,
       Content |-> PyNone, Reactions |-> PyNone] }

\* csv.DictReader: a row has the columns of the header
RowsUnder(names, records) ==
    [i \in 1..Len(records) |->
        [k \in (DOMAIN records[i]) \cap names |-> records[i][k]]]

CsvFiles(names) ==
    IF names = {} THEN {<<>>}
    ELSE {RowsUnder(names, q) : q \in SeqsUpTo(CsvRecords, MaxCsvRows)}

textVars == <<content, redacted, cleaned, inline1, inline2, sanitized, title>>

\* Variant of ExitStatus with a fault: failures do not change the exit status.
ExitStatusZero(failed) == 0

\* if failed_count > 0: sys.exit(1); otherwise main returns
ExitStatus(failed) == IF failed > 0 THEN 1 ELSE 0

\* if not GITHUB_TOKEN: sys.exit(1)
ValidateEnvironment ==
    /\ pc = "start"
    /\ IF token
       THEN pc' = "read" /\ UNCHANGED exit_code
       ELSE pc' = "exit" /\ exit_code' = 1
    /\ UNCHANGED <<max_length, textVars, selectorVars, token, csv_exists, fieldnames,
                   csv_rows, repo_id, category_id, idx, created_count, failed_count,
                   calls>>

\* rows = read_csv_file(CSV_FILE), sys.exit(1) on FileNotFoundError or ValueError
ReadCsv ==
    /\ pc = "read"
    /\ LET r == read_csv_file(csv_exists, fieldnames, csv_rows) IN
       IF r.ok
       THEN rows' = r.rows /\ pc' = "filter" /\ UNCHANGED exit_code
       ELSE pc' = "exit" /\ exit_code' = 1 /\ UNCHANGED rows
    /\ UNCHANGED <<max_length, textVars, questions, token, csv_exists, fieldnames,
                   csv_rows, repo_id, category_id, idx, created_count, failed_count,
                   calls>>

\* questions = filter_questions(rows); main returns when there are none.
\* main catches no exception of filter_questions: the interpreter prints the
\* traceback and exits with status 1
SelectQuestions ==
    /\ pc = "filter"
    /\ LET r == filter_questions(rows) IN
       IF r.raised
       THEN pc' = "exit" /\ exit_code' = 1 /\ UNCHANGED questions
       ELSE /\ questions' = r.value
            /\ IF r.value = <<>>
               THEN pc' = "exit" /\ exit_code' = 0
               ELSE pc' = "repo" /\ UNCHANGED exit_code
    /\ UNCHANGED <<max_length, textVars, rows, token, csv_exists, fieldnames, csv_rows,
                   repo_id, category_id, idx, created_count, failed_count, calls>>

\* repo_id = get_repository_id(...); sys.exit(1) if not repo_id
GetRepositoryId ==
    /\ pc = "repo"
    /\ \E resp \in RepoResponses :
          /\ repo_id' = get_repository_id(resp)
          /\ calls' = Append(calls, [op |-> "repository", result |-> repo_id'])
          /\ IF repo_id' = None
             THEN pc' = "exit" /\ exit_code' = 1
             ELSE pc' = "category" /\ UNCHANGED exit_code
    /\ UNCHANGED <<max_length, textVars, selectorVars, token, csv_exists, fieldnames,
                   csv_rows, category_id, idx, created_count, failed_count>>

\* category_id = get_discussion_category_id(...); sys.exit(1) if not category_id
GetCategoryId ==
    /\ pc = "category"
    /\ \E resp \in CategoryResponses :
          /\ category_id' = get_discussion_category_id(resp, DISCUSSION_CATEGORY)
          /\ calls' = Append(calls, [op |-> "category", result |-> category_id'])
          /\ IF category_id' = None
             THEN pc' = "exit" /\ exit_code' = 1
             ELSE pc' = "loop" /\ UNCHANGED exit_code
    /\ UNCHANGED <<max_length, textVars, selectorVars, token, csv_exists, fieldnames,
                   csv_rows, repo_id, idx, created_count, failed_count>>

\* one pass of the loop over questions.  sanitize_content(None) raises
\* TypeError in re.sub, which main does not catch: the run ends there with
\* the traceback and exit status 1.
ProcessQuestion ==
    /\ pc = "loop"
    /\ idx < Len(questions)
    /\ content' = Get(questions[idx + 1], "Content", <<>>)
    /\ IF content' = PyNone
       THEN /\ pc' = "exit"
            /\ exit_code' = 1
            /\ UNCHANGED <<redacted, cleaned, inline1, inline2, sanitized, title, calls,
                           created_count, failed_count, idx>>
       ELSE /\ redacted' = redact_emails(content')
            /\ cleaned' = LineStage(redacted')
            /\ inline1' = InlineStage1(cleaned')
            /\ inline2' = InlineStage2(inline1')
            /\ sanitized' = sanitize_content(content')
            /\ title' = generate_title(sanitized', TITLE_MAX_LENGTH)
            /\ \E resp \in PublishResponses :
                  LET success == create_discussion(resp) IN
                  /\ calls' = Append(calls, [op |-> "publish", repo |-> repo_id,
                                             category |-> category_id, title |-> title',
                                             body |-> sanitized', result |-> success])
                  /\ created_count' = IF success THEN created_count + 1 ELSE created_count
                  /\ failed_count' = IF success THEN failed_count ELSE failed_count + 1
            /\ idx' = idx + 1
            /\ UNCHANGED <<pc, exit_code>>
    /\ UNCHANGED <<max_length, selectorVars, token, csv_exists, fieldnames, csv_rows,
                   repo_id, category_id>>

\* the summary and the exit status once the loop is over
Summary ==
    /\ pc = "loop"
    /\ idx >= Len(questions)
    /\ exit_code' = ExitStatus(failed_count)
    /\ pc' = "exit"
    /\ UNCHANGED <<max_length, textVars, selectorVars, token, csv_exists, fieldnames,
                   csv_rows, repo_id, category_id, idx, created_count, failed_count,
                   calls>>

InitMain ==
    /\ pc = "start"
    /\ token \in BOOLEAN
    /\ csv_exists \in BOOLEAN
    /\ fieldnames \in Headers
    /\ csv_rows \in CsvFiles(fieldnames)
    /\ rows = <<>> /\ questions = <<>>
    /\ repo_id = None /\ category_id = None /\ idx = 0
    /\ created_count = 0 /\ failed_count = 0 /\ calls = <<>> /\ exit_code = -1
    /\ content = <<>>
    /\ max_length = TITLE_MAX_LENGTH
    /\ TextIdle

NextMain ==
    \/ ValidateEnvironment
    \/ ReadCsv
    \/ SelectQuestions
    \/ GetRepositoryId
    \/ GetCategoryId
    \/ ProcessQuestion
    \/ Summary

SpecMain == InitMain /\ [][NextMain]_vars

----------------------------------------------------------------------------
(* Properties of the sanitizer *)

Sanitized == pc \in {"title", "done"}

MinOf(S) == CHOOSE x \in S : \A y \in S : x <= y

MaxOf(S) == CHOOSE x \in S : \A y \in S : y <= x

AllIn(s, a, b, S) == \A k \in a..b : s[k] \in S

KeywordSet == {InlineKeywords[j] : j \in 1..Len(InlineKeywords)}

\* the pairs <<a, b>> such that s[a..b] is a signature keyword in any letter case
KeywordSpans(s) ==
    { sp \in { <<a, a + Len(w) - 1>> : a \in 1..Len(s), w \in KeywordSet } :
        /\ sp[2] <= Len(s)
        /\ \E w \in KeywordSet :
              /\ Len(w) = sp[2] - sp[1] + 1
              /\ \A k \in 1..Len(w) : Lower(s[sp[1] + k - 1]) = w[k] }

\* the shape of an e-mail address as the specification describes it: the
\* top-level domain is alphabetic
ClaimEmailPattern ==
    << WordBoundary,
       Rep(FALSE, LocalChars, 1, -1),
       Lit(<<"@">>),
       Rep(FALSE, DomainChars, 1, -1),
       Lit(<<".">>),
       Rep(FALSE, Letters, 2, -1),
       WordBoundary >>

\* C2: redact_emails replaces every substring local-part@domain.tld whose tld
\* is two or more alphabetic characters by [redacted-email] and changes
\* nothing else, so the output is the text with exactly those substrings
\* replaced, one marker for each.
C2_RedactsExactlyEmailShapes ==
    pc = "done" => redacted = ReSub(ClaimEmailPattern, RedactionMarker, content, FALSE)

\* a signature cue as the specification describes it: after optional leading
\* whitespace the line starts with a keyword, whatever follows the keyword,
\* or with a mail header directly followed by a colon
ClaimCuePatterns ==
    { << Rep(FALSE, Whitespace, 0, -1), Lit(w) >> :
        w \in { KwThanks, KwThankYou, KwRegards, KwBest, KwCheers, KwSincerely,
                <<"f", "r", "o", "m", ":">>, <<"s", "e", "n", "t", ":">>,
                <<"t", "o", ":">>, <<"c", "c", ":">>, <<"b", "c", "c", ":">>,
                <<"s", "u", "b", "j", "e", "c", "t", ":">> } }

ClaimIsCue(line) == \E p \in ClaimCuePatterns : ReMatch(p, line, TRUE)

ClaimCueLines(text) ==
    {i \in 1..Len(SplitLines(text)) : ClaimIsCue(SplitLines(text)[i])}

\* the lines before the first cue line, joined and with e-mails redacted
TextBeforeCue(text) ==
    redact_emails(JoinLines(SubSeq(SplitLines(text), 1, MinOf(ClaimCueLines(text)) - 1)))

\* out is a stretch of src, possibly with the final period the sanitizer adds
OriginatesFrom(out, src) ==
    \/ out = <<>>
    \/ \E i \in 1..Len(src) :
          \/ /\ i + Len(out) - 1 <= Len(src)
             /\ SubSeq(src, i, i + Len(out) - 1) = out
          \/ /\ i + Len(out) - 2 <= Len(src)
             /\ Append(SubSeq(src, i, i + Len(out) - 2), ".") = out

\* C1: when some line of the text is a signature cue, the output of
\* sanitize_content holds no content of the first such line or of any line
\* after it: it is a stretch of the text before that line.
C1_NoContentFromSignature ==
    (Sanitized /\ ClaimCueLines(content) /= {})
        => OriginatesFrom(sanitized, TextBeforeCue(content))

\* "How do I enable the feature?"
ExampleSanitized ==
    << "H", "o", "w", " ", "d", "o", " ", "I", " ", "e", "n", "a", "b",
       "l", "e", " ", "t", "h", "e", " ", "f", "e", "a", "t", "u", "r",
       "e", "?" >>

\* "Q&A: How do I enable the feature?"
ExampleTitle ==
    << "Q", "&", "A", ":", " ", "H", "o", "w", " ", "d", "o", " ", "I",
       " ", "e", "n", "a", "b", "l", "e", " ", "t", "h", "e", " ", "f",
       "e", "a", "t", "u", "r", "e", "?" >>

\* [\s]+(keyword)[\s,]+.*$ : an inline signature that runs to the end
InlineSignatureTail ==
    << Rep(FALSE, Whitespace, 1, -1),
       Alt(InlineKeywords),
       Rep(FALSE, Whitespace \cup {","}, 1, -1),
       Rep(TRUE, {"\n"}, 0, -1),
       EndOfString >>

\* the indices i such that text[1..i] is one sentence of letters and spaces
\* that holds no keyword and ends in . ! or ? at i, and the rest of the
\* text is an inline signature that ends in a name
SentenceEnds(text) ==
    { i \in 2..Len(text) :
        /\ text[i] \in {".", "!", "?"}
        /\ text[1] \in Letters
        /\ AllIn(text, 1, i - 1, Letters \cup {" "})
        /\ KeywordSpans(SubSeq(text, 1, i - 1)) = {}
        /\ \A k \in 1..Len(text) : text[k] /= "\n"
        /\ text[Len(text)] \in Letters
        /\ Match(text, InlineSignatureTail, TRUE, 1, i) = Len(text) }

\* C3: the content "How do I enable the feature? Thanks, John Smith" is
\* sanitized to "How do I enable the feature?" and titled "Q&A: How do I
\* enable the feature?"; a single-line sentence ending in ? ! or . that is
\* followed by an inline signature keeps its ending punctuation mark.
C3_KeepsSentenceEnd ==
    pc = "done" =>
        /\ content = ExampleContent =>
              (sanitized = ExampleSanitized /\ title = ExampleTitle)
        /\ \A i \in SentenceEnds(content) : sanitized = SubSeq(content, 1, i)

\* the pairs <<p, a>> such that a signature run starts at index p of s with
\* its keyword at index a: an optional . ! or ?, whitespace, the keyword, at
\* least one whitespace or comma, and no line break from some point of that
\* whitespace-or-comma stretch up to the end of s
SignatureRuns(s) ==
    LET followed ==
            { sp[1] : sp \in
                { q \in KeywordSpans(s) :
                    \E c \in (q[2] + 1)..Len(s) :
                        /\ AllIn(s, q[2] + 1, c, Whitespace \cup {","})
                        /\ \A k \in (c + 1)..Len(s) : s[k] /= "\n" } }
    IN  UNION { { <<p, a>> : p \in
                    { i \in 1..(a - 1) :
                        \/ AllIn(s, i, a - 1, Whitespace)
                        \/ /\ s[i] \in {".", "!", "?"}
                           /\ i + 1 < a
                           /\ AllIn(s, i + 1, a - 1, Whitespace) } } :
                a \in followed }

RunStarts(s) == {r[1] : r \in SignatureRuns(s)}

RunKeywords(s) == {r[2] : r \in SignatureRuns(s)}

\* C10 as amended: the first inline trim removes the run that starts at the
\* first occurrence of a signature run and extends to the end of the string;
\* the text before that first occurrence is kept, and a text without such a
\* run is left as it is.
C10_TrimsFromFirstRun ==
    Sanitized =>
        LET starts == RunStarts(cleaned)
        IN  inline1 = IF starts = {} THEN cleaned
                      ELSE SubSeq(cleaned, 1, MinOf(starts) - 1)

\* a text with two signature keywords, trimmed from the first
C10_TwoRunsTrimmed ==
    /\ pc = "done"
    /\ Cardinality(RunKeywords(cleaned)) >= 2
    /\ inline1 = SubSeq(cleaned, 1, MinOf(RunStarts(cleaned)) - 1)

\* C10 as stated: the trim starts at the last occurrence of a signature
\* keyword (with the whitespace and the optional punctuation mark before
\* it), and the text before that last occurrence, earlier keywords
\* included, is kept.
C10_TrimsFromLastRun ==
    Sanitized =>
        LET runs == SignatureRuns(cleaned)
            a == MaxOf({r[2] : r \in runs})
            p == MinOf({r[1] : r \in {q \in runs : q[2] = a}})
        IN  inline1 = IF runs = {} THEN cleaned ELSE SubSeq(cleaned, 1, p - 1)

----------------------------------------------------------------------------
(* Properties of the title derivation *)

\* the 0-based position of the last space among the first n characters of
\* s, -1 when there is none
LastSpaceWithin(s, n) ==
    LET spaces == {i \in 0..(Min(n, Len(s)) - 1) : s[i + 1] = " "}
    IN  IF spaces = {} THEN -1 ELSE MaxOf(spaces)

Ellipsis == <<".", ".", ".">>

\* C5 as amended: for content longer than max_length the title is the
\* prefix, the truncated content and "...": the content is cut at the last
\* space within its first max_length characters when the position of that
\* space is strictly greater than 0.7 * max_length, and at exactly
\* max_length characters otherwise (no space, or the last space at or before
\* 0.7 * max_length).
C5_CutsAtSpaceAboveThreshold ==
    (pc = "done" /\ Len(sanitized) > max_length) =>
        LET p == LastSpaceWithin(sanitized, max_length)
        IN  title = TITLE_PREFIX
                    \o SubSeq(sanitized, 1,
                              IF p * ThresholdDen > max_length * ThresholdNum
                              THEN p ELSE max_length)
                    \o Ellipsis

\* content longer than max_length whose last space is exactly at 0.7 *
\* max_length, cut at max_length characters
C5_SpaceAtThresholdHardCut ==
    /\ pc = "done"
    /\ Len(sanitized) > max_length
    /\ LastSpaceWithin(sanitized, max_length) * ThresholdDen = max_length * ThresholdNum
    /\ title = TITLE_PREFIX \o SubSeq(sanitized, 1, max_length) \o Ellipsis

\* C5 as stated: the content is cut at the last space when its position is
\* at or after 0.7 * max_length, and at max_length characters otherwise.
C5_CutsAtSpaceFromThreshold ==
    (pc = "done" /\ Len(sanitized) > max_length) =>
        LET p == LastSpaceWithin(sanitized, max_length)
        IN  title = TITLE_PREFIX
                    \o SubSeq(sanitized, 1,
                              IF p * ThresholdDen >= max_length * ThresholdNum
                              THEN p ELSE max_length)
                    \o Ellipsis

\* C6: for content of length at most max_length, the empty string included,
\* the title is exactly the prefix followed by the content.
C6_ShortContentKept ==
    (pc = "done" /\ Len(sanitized) <= max_length) => title = TITLE_PREFIX \o sanitized

\* content of exactly max_length characters with a space past the threshold
C6_FullLengthKept ==
    /\ pc = "done"
    /\ Len(sanitized) = max_length
    /\ LastSpaceWithin(sanitized, max_length) * ThresholdDen > max_length * ThresholdNum
    /\ title = TITLE_PREFIX \o sanitized

----------------------------------------------------------------------------
(* Properties of the selector *)

CaseInsensitiveEqual(a, b) ==
    Len(a) = Len(b) /\ \A k \in 1..Len(a) : Lower(a[k]) = Lower(b[k])

\* a field a row does not have counts as the empty string
FieldOrEmpty(row, key) ==
    IF key \notin DOMAIN row \/ row[key] = PyNone THEN <<>> ELSE row[key]

IsAttendeeQuestion(row) ==
    /\ CaseInsensitiveEqual(FieldOrEmpty(row, "Source"), ATTENDEE)
    /\ CaseInsensitiveEqual(FieldOrEmpty(row, "Type"), QUESTION)

SelectedIndices(rs) == {i \in 1..Len(rs) : IsAttendeeQuestion(rs[i])}

\* the k-th smallest element of a set of numbers
NthOf(S, k) == CHOOSE i \in S : Cardinality({j \in S : j < i}) = k - 1

\* C4: for every sequence of records filter_questions returns, without
\* failing, exactly the rows whose Source equals ATTENDEE and whose Type
\* equals QUESTION, letter case aside, in their original order, each once
\* and as it was; a field a row lacks counts as the empty string.
C4_SelectsAttendeeQuestionsInOrder ==
    pc /= "filter" =>
        /\ pc = "done"
        /\ Len(questions) = Cardinality(SelectedIndices(rows))
        /\ \A k \in 1..Len(questions) :
              questions[k] = rows[NthOf(SelectedIndices(rows), k)]

----------------------------------------------------------------------------
(* Properties of main() *)

PublishCalls == SelectSeq(calls, LAMBDA c : c.op = "publish")

Resolved == repo_id /= None /\ category_id /= None

SourceUsable == csv_exists /\ RequiredColumns \subseteq fieldnames

\* C7: once the repository and the category are resolved, main makes
\* exactly one publish attempt per selected record, in the order of the
\* selection, whatever the earlier attempts returned, and at the end
\* created_count + failed_count is the number of selected records.
C7_OneAttemptPerQuestion ==
    (Resolved /\ pc \in {"loop", "exit"}) =>
        /\ Len(PublishCalls) = idx
        /\ created_count + failed_count = idx
        /\ \A k \in 1..Len(PublishCalls) :
              /\ k <= Len(questions)
              /\ PublishCalls[k].body
                     = sanitize_content(FieldOrEmpty(questions[k], "Content"))
              /\ PublishCalls[k].title
                     = generate_title(PublishCalls[k].body, TITLE_MAX_LENGTH)
        /\ pc = "exit" => idx = Len(questions)

LookupFailed ==
    \E k \in 1..Len(calls) :
        calls[k].op \in {"repository", "category"} /\ calls[k].result = None

PublishFailed ==
    \E k \in 1..Len(calls) : calls[k].op = "publish" /\ ~calls[k].result

\* C8: a run ends with a nonzero exit whenever the credential is absent,
\* the repository or the category could not be resolved, or a publish
\* attempt failed; it ends with a zero exit only when none of these happened.
C8_NonzeroExitOnFailure ==
    pc = "exit" =>
        /\ (~token \/ LookupFailed \/ PublishFailed) => exit_code /= 0
        /\ exit_code = 0 => (token /\ ~LookupFailed /\ ~PublishFailed)

\* a run that published one record, failed on another and exits nonzero
C8_PartialFailureExit ==
    /\ pc = "exit"
    /\ token /\ ~LookupFailed
    /\ PublishFailed
    /\ created_count >= 1
    /\ exit_code = 1

\* C9: when the source file does not exist or its header lacks a required
\* column, the run ends fatally before any processing: no row is selected
\* or sanitized and no remote call is made; and in any run every publish
\* call comes after the repository and the category were both resolved.
C9_FatalBeforeProcessing ==
    /\ ~SourceUsable =>
          /\ rows = <<>> /\ questions = <<>> /\ sanitized = <<>> /\ title = <<>>
          /\ calls = <<>>
          /\ pc \in {"start", "read", "exit"}
          /\ pc = "exit" => exit_code = 1
    /\ \A k \in 1..Len(calls) :
          calls[k].op = "publish" =>
              /\ calls[k].repo /= None /\ calls[k].category /= None
              /\ \E i \in 1..(k - 1) : \E j \in (i + 1)..(k - 1) :
                    /\ calls[i].op = "repository" /\ calls[i].result = calls[k].repo
                    /\ calls[j].op = "category" /\ calls[j].result = calls[k].category

\* a run on a file whose header lacks a column, ended fatally with rows of
\* attendee questions left unread
C9_BadHeaderFatal ==
    /\ pc = "exit"
    /\ token /\ csv_exists
    /\ ~(RequiredColumns \subseteq fieldnames)
    /\ fieldnames /= {}
    /\ \E i \in 1..Len(csv_rows) : IsAttendeeQuestion(csv_rows[i])
    /\ exit_code = 1
    /\ calls = <<>>

====
